---- MODULE Spec2Model ----
(***************************************************************************)
(* SkillSwap: the swap-request lifecycle of server/src/routes/swaps.routes *)
(* (Create, Transition, Delete) over the swap_requests and skills tables.  *)
(*                                                                         *)
(* Spec      runs the handlers one after another (each request completes   *)
(*           before the next one starts).                                  *)
(* SpecConc  runs two requests at a time on the one shared database        *)
(*           connection; every awaited statement is a step of its own.     *)
(* SpecRace  does the same with Create and Delete requests as well.        *)
(*                                                                         *)
(* SpecRate  runs the swap handlers and POST /api/ratings/swap/:swapId one  *)
(*           after another.                                                *)
(*                                                                         *)
(* SpecList  runs the swap handlers and GET /api/swaps one after another.  *)
(*                                                                         *)
(* SpecSkills runs POST, PUT and DELETE /api/skills one after another.     *)
(*                                                                         *)
(* SpecRelay runs the WebSocket relay of the server: connections, the      *)
(*           heartbeat timers and the close events; SpecRelayFair adds     *)
(*           that armed timers fire and pending close events arrive.       *)
(* SpecPush adds clients that announce any user id, and notifications.     *)
(*                                                                         *)
(* SpecApi   runs requests through the middleware of the /api routes.      *)
(*                                                                         *)
(* SpecMigrate runs MigrationRunner.migrate, statement by statement.       *)
(*                                                                         *)
(* SpecClient runs browser sessions of one user against the relay.         *)
(*                                                                         *)
(* HTTP responses are named after the error taxonomy of the design:        *)
(*   200/201                                   -> "OK" / "Created"         *)
(*   400 'Invalid status'                      -> "ValidationError"        *)
(*   404                                       -> "NotFound"               *)
(*   403                                       -> "NotAuthorized"          *)
(*   400 'You cannot cancel this request'      -> "WrongAction"            *)
(*   400 'Invalid offered/wanted skill'        -> "InvalidSkillOwnership"  *)
(*   400 'You already have a pending request'  -> "DuplicatePendingRequest"*)
(*   400 'Only pending swap requests can be deleted'                       *)
(*                                             -> "InvalidStateTransition" *)
(*   400 'You already have this skill listed'  -> "DuplicateResource"      *)
(*   500                                       -> "InternalError"          *)
(*   401 'Access token required'               -> "Unauthenticated"        *)
(*   403 'Invalid or expired token'            -> "InvalidToken"           *)
(***************************************************************************)
EXTENDS Integers, FiniteSets, Sequences, Bags, TLC

NumUsers == 3
NumSkills == 2
MaxSwaps == 2
MaxRatedSwaps == 1
NumChannels == 2
MaxMessages == 2
NumMigrations == 3
MaxRuns == 4
MaxSockets == 4

\* ratingSchema: z.number().int().min(1).max(5)
MinRating == 1
MaxRating == 5

\* skillSchema: name: z.string().min(2)
MinNameLen == 2
maxReconnectAttempts == 5
NormalClosure == 1000
InvalidUrl == 4000

Users == 1..NumUsers
SkillIds == 1..NumSkills
SwapIds == 1..MaxSwaps

Statuses == {"pending", "accepted", "rejected", "completed", "cancelled"}

VARIABLES
    skills,         \* skills table: id -> row, for the stored ids
    swap_requests,  \* swap_requests table: id -> row, for the stored ids
    lastID,         \* AUTOINCREMENT counter of swap_requests
    last,           \* the most recent request's kind, target and response (Spec)
    reqs,           \* the requests in flight (SpecConc)
    txn,            \* the shared connection's open transaction (SpecConc)
    ratings,        \* ratings table: the bag of its rows
    users,          \* users.rating: id -> the persisted average, once written
    skillsLastID,   \* AUTOINCREMENT counter of skills
    clients,        \* the relay's Map: user id -> its connection
    conns,          \* the WebSocket connections the server has seen
    api,            \* the last request to the /api routes and its outcome
    adminMessages,  \* adminMessages table: the adminId of each row
    migrations,     \* migrations table: the recorded ids, oldest first
    schema,         \* the migrations whose up has changed the database
    runner,         \* MigrationRunner.migrate: where it stands
    sessions        \* the browser sessions: id -> its socket and timers

vars == <<skills, swap_requests, lastID, last, reqs, txn, ratings, users,
          skillsLastID, clients, conns, api, adminMessages, migrations,
          schema, runner, sessions>>

\* The relay's state.
relayVars == <<clients, conns>>

\* The state of the routes' middleware and of the admin routes.
platformVars == <<api, adminMessages>>

\* The migration runner's state.
migrationVars == <<migrations, schema, runner>>

\* The state outside the request handlers and the relay.
outsideVars == <<migrationVars, sessions>>

\* The request handlers' state.
appVars == <<skills, swap_requests, lastID, last, reqs, txn, ratings, users,
             skillsLastID, platformVars>>

\* What the relay never writes.
httpVars == <<appVars, outsideVars>>

\* What the migration runner never writes.
nonMigrationVars == <<appVars, relayVars, sessions>>

\* What the swap handlers never write.
otherVars == <<ratings, users, skillsLastID, relayVars, platformVars,
               outsideVars>>

----------------------------------------------------------------------------
(* Queries and statements, as functions of the tables they run against.    *)

\* SELECT id FROM skills WHERE id = ? AND userId = ? AND isOffering = 1
OfferedSkillOf(skl, skillId, userId) ==
    /\ skillId \in DOMAIN skl
    /\ skl[skillId].userId = userId
    /\ skl[skillId].isOffering

\* The duplicate check with the offered-skill column in place of the
\* requested-skill column.
ExistingRequest_OfferedColumn(db, requesterId, wantedSkillId) ==
    \E id \in DOMAIN db :
        /\ db[id].requesterId = requesterId
        /\ db[id].skillOfferedId = wantedSkillId
        /\ db[id].status = "pending"

\* SELECT id FROM swap_requests WHERE requesterId = ? AND
\*   skillRequestedId = ? AND status = 'pending'
ExistingRequest(db, requesterId, wantedSkillId) ==
    \E id \in DOMAIN db :
        /\ db[id].requesterId = requesterId
        /\ db[id].skillRequestedId = wantedSkillId
        /\ db[id].status = "pending"

\* The checks of Create, in the order of the handler.
CreateResult(db, skl, user, providerId, offeredSkillId, wantedSkillId) ==
    IF ~OfferedSkillOf(skl, offeredSkillId, user)
        THEN "InvalidSkillOwnership"
    ELSE IF ~OfferedSkillOf(skl, wantedSkillId, providerId)
        THEN "InvalidSkillOwnership"
    ELSE IF ExistingRequest(db, user, wantedSkillId)
        THEN "DuplicatePendingRequest"
    ELSE "Created"

\* INSERT INTO swap_requests (...) VALUES (?, ?, ?, ?, 'pending', ...)
InsertSwap(db, id, user, offeredSkillId, wantedSkillId) ==
    [i \in DOMAIN db \cup {id} |->
        IF i = id
            THEN [requesterId |-> user,
                  skillOfferedId |-> offeredSkillId,
                  skillRequestedId |-> wantedSkillId,
                  status |-> "pending",
                  completedAt |-> FALSE,
                  ratingByRequester |-> 0,
                  ratingByReceiver |-> 0]
            ELSE db[i]]

\* The statuses PUT /:id/status lets through.
ValidStatus(status) ==
    status \in {"accepted", "rejected", "completed", "cancelled"}

\* SELECT sr.*, s.userId as skillOwnerId FROM swap_requests sr
\*   JOIN skills s ON sr.skillRequestedId = s.id WHERE sr.id = ?
HasSwapRequest(db, skl, swapRequestId) ==
    /\ swapRequestId \in DOMAIN db
    /\ db[swapRequestId].skillRequestedId \in DOMAIN skl

SkillOwnerId(db, skl, swapRequestId) ==
    skl[db[swapRequestId].skillRequestedId].userId

\* The matrix with accept and reject open to both participants.
Authorize_ParticipantsAccept(requesterId, skillOwnerId, user, status) ==
    IF status \in {"accepted", "rejected", "completed"} THEN
        IF requesterId # user /\ skillOwnerId # user THEN "NotAuthorized"
        ELSE "proceed"
    ELSE IF status = "cancelled" THEN
        IF requesterId # user THEN
            IF skillOwnerId = user THEN "WrongAction" ELSE "NotAuthorized"
        ELSE "proceed"
    ELSE "proceed"

\* The matrix with cancel open to the provider as well.
Authorize_ProviderCancels(requesterId, skillOwnerId, user, status) ==
    IF status \in {"accepted", "rejected"} THEN
        IF skillOwnerId # user THEN "NotAuthorized"
        ELSE IF requesterId = user THEN "NotAuthorized"
        ELSE "proceed"
    ELSE IF status \in {"cancelled", "completed"} THEN
        IF requesterId # user /\ skillOwnerId # user THEN "NotAuthorized"
        ELSE "proceed"
    ELSE "proceed"

\* The matrix without the participant check on completed.
Authorize_AnyoneCompletes(requesterId, skillOwnerId, user, status) ==
    IF status \in {"accepted", "rejected"} THEN
        IF skillOwnerId # user THEN "NotAuthorized"
        ELSE IF requesterId = user THEN "NotAuthorized"
        ELSE "proceed"
    ELSE IF status = "cancelled" THEN
        IF requesterId # user THEN
            IF skillOwnerId = user THEN "WrongAction" ELSE "NotAuthorized"
        ELSE "proceed"
    ELSE "proceed"

\* The authorization matrix of PUT /:id/status: the response it returns
\* early, or "proceed" when the handler goes on to the transaction.
Authorize(requesterId, skillOwnerId, user, status) ==
    IF status \in {"accepted", "rejected"} THEN
        IF skillOwnerId # user THEN "NotAuthorized"
        ELSE IF requesterId = user THEN "NotAuthorized"
        ELSE "proceed"
    ELSE IF status = "cancelled" THEN
        IF requesterId # user THEN
            IF skillOwnerId = user THEN "WrongAction" ELSE "NotAuthorized"
        ELSE "proceed"
    ELSE IF status = "completed" THEN
        IF requesterId # user /\ skillOwnerId # user THEN "NotAuthorized"
        ELSE "proceed"
    ELSE "proceed"

\* UPDATE swap_requests SET status = ?, updatedAt = ... WHERE id = ?
UpdateStatus(db, swapRequestId, status) ==
    IF swapRequestId \in DOMAIN db
        THEN [db EXCEPT ![swapRequestId].status = status]
        ELSE db

\* UPDATE swap_requests SET completedAt = datetime("now") WHERE id = ?
UpdateCompletedAt(db, swapRequestId) ==
    IF swapRequestId \in DOMAIN db
        THEN [db EXCEPT ![swapRequestId].completedAt = TRUE]
        ELSE db

\* The writes of one transition, BEGIN TRANSACTION to COMMIT.
TransitionWrites(db, swapRequestId, status) ==
    IF status = "completed"
        THEN UpdateCompletedAt(UpdateStatus(db, swapRequestId, status),
                               swapRequestId)
        ELSE UpdateStatus(db, swapRequestId, status)

\* The response of PUT /:id/status up to the transaction.
TransitionResult(db, skl, user, swapRequestId, status) ==
    IF ~ValidStatus(status) THEN "ValidationError"
    ELSE IF ~HasSwapRequest(db, skl, swapRequestId) THEN "NotFound"
    ELSE Authorize(db[swapRequestId].requesterId,
                   SkillOwnerId(db, skl, swapRequestId), user, status)

\* DELETE /:id without the check that the request is still pending.
DeleteResult_NoStatusCheck(db, skl, user, swapRequestId) ==
    IF swapRequestId \notin DOMAIN db THEN "NotFound"
    ELSE IF db[swapRequestId].skillRequestedId \notin DOMAIN skl
        THEN "NotFound"
    ELSE IF /\ skl[db[swapRequestId].skillRequestedId].userId # user
            /\ db[swapRequestId].requesterId # user
        THEN "NotAuthorized"
    ELSE "proceed"

\* The response of DELETE /:id up to the DELETE statement.
DeleteResult(db, skl, user, swapRequestId) ==
    IF swapRequestId \notin DOMAIN db THEN "NotFound"
    ELSE IF db[swapRequestId].skillRequestedId \notin DOMAIN skl
        THEN "NotFound"
    ELSE IF /\ skl[db[swapRequestId].skillRequestedId].userId # user
            /\ db[swapRequestId].requesterId # user
        THEN "NotAuthorized"
    ELSE IF db[swapRequestId].status # "pending"
        THEN "InvalidStateTransition"
    ELSE "proceed"

\* DELETE FROM swap_requests WHERE id = ?
DeleteSwap(db, swapRequestId) ==
    [i \in DOMAIN db \ {swapRequestId} |-> db[i]]

\* POST /api/swaps as a whole: the response and the table it leaves.
CreateEffect(db, skl, newId, user, providerId, offeredSkillId, wantedSkillId) ==
    LET result == CreateResult(db, skl, user, providerId,
                               offeredSkillId, wantedSkillId)
    IN  [result |-> result,
         db |-> IF result = "Created"
                    THEN InsertSwap(db, newId, user,
                                    offeredSkillId, wantedSkillId)
                    ELSE db]

\* PUT /api/swaps/:id/status as a whole, run on its own.
TransitionEffect(db, skl, user, swapRequestId, status) ==
    LET result == TransitionResult(db, skl, user, swapRequestId, status)
    IN  IF result = "proceed"
            THEN [result |-> "OK",
                  db |-> TransitionWrites(db, swapRequestId, status)]
            ELSE [result |-> result, db |-> db]

\* DELETE /api/swaps/:id as a whole, run on its own.
DeleteEffect(db, skl, user, swapRequestId) ==
    LET result == DeleteResult(db, skl, user, swapRequestId)
    IN  IF result = "proceed"
            THEN [result |-> "OK", db |-> DeleteSwap(db, swapRequestId)]
            ELSE [result |-> result, db |-> db]

\* The status filters of GET /api/swaps; "" is a request without one.
StatusFilters == Statuses \cup {""}

\* The type filters of GET /api/swaps; anything but sent and received lists all.
TypeFilters == {"all", "sent", "received"}

\* The rows of the listing's JOIN that carry the request id.
Joined(db, skl, id) ==
    /\ db[id].skillRequestedId \in DOMAIN skl
    /\ db[id].skillOfferedId \in DOMAIN skl

\* The listing without WHERE (sr.requesterId = ? OR ws.userId = ?)
ListSwaps_Everyones(db, skl, user, status, type) ==
    {id \in DOMAIN db :
        /\ Joined(db, skl, id)
        /\ status # "" => db[id].status = status
        /\ type = "sent" => db[id].requesterId = user
        /\ type = "received" => skl[db[id].skillRequestedId].userId = user}

\* GET /api/swaps: the ids of the rows the query returns
ListSwaps(db, skl, user, status, type) ==
    {id \in DOMAIN db :
        /\ Joined(db, skl, id)
        /\ db[id].requesterId = user \/ skl[db[id].skillRequestedId].userId = user
        /\ status # "" => db[id].status = status
        /\ type = "sent" => db[id].requesterId = user
        /\ type = "received" => skl[db[id].skillRequestedId].userId = user}

----------------------------------------------------------------------------
(* POST /api/ratings/swap/:swapId (ratings.routes).  A rating row is       *)
(* [swapId, raterId, userId, rating]: userId is the rated user.  The row   *)
(* id, the free-text comment and the timestamps are left out, so the table *)
(* is the bag of its rows.                                                 *)

\* validateBody(ratingSchema)
ValidRating(rating) == rating \in MinRating..MaxRating

\* The lookup of the swap request without the filter on its status.
CompletedSwap_AnyStatus(db, swapId) ==
    swapId \in DOMAIN db

\* SELECT * FROM swap_requests WHERE id = ? AND status = 'completed'
CompletedSwap(db, swapId) ==
    /\ swapId \in DOMAIN db
    /\ db[swapId].status = "completed"

\* The participant check letting every authenticated user through.
PartOfSwap_Everyone(requesterId, skillOwnerId, user) ==
    TRUE

\* swapRequest.requesterId === user || skillOwner.userId === user
PartOfSwap(requesterId, skillOwnerId, user) ==
    requesterId = user \/ skillOwnerId = user

\* const ratedId = requesterId === user ? skillOwner.userId : requesterId
RatedId(requesterId, skillOwnerId, user) ==
    IF requesterId = user THEN skillOwnerId ELSE requesterId

\* The lookup of the rater's earlier rating finding nothing.
ExistingRating_Never(rts, swapId, raterId) ==
    {}

\* SELECT id, userId FROM ratings WHERE swapId = ? AND raterId = ?
\* (the rows that match; db.get hands the handler one of them)
ExistingRating(rts, swapId, raterId) ==
    {r \in BagToSet(rts) : r.swapId = swapId /\ r.raterId = raterId}

\* UPDATE ratings SET rating = ?, comment = ?, updatedAt = ... WHERE id = ?
UpdateRating(rts, row, rating) ==
    (rts (-) SetToBag({row})) (+) SetToBag({[row EXCEPT !.rating = rating]})

\* INSERT INTO ratings (swapId, raterId, userId, rating, comment, ...)
InsertRating(rts, swapId, raterId, userId, rating) ==
    rts (+) SetToBag({[swapId |-> swapId, raterId |-> raterId,
                       userId |-> userId, rating |-> rating]})

\* UPDATE swap_requests SET ratingByRequester = ? ... WHERE id = ?, or
\* ratingByReceiver when the rater is not the requester.
UpdateSwapRating(db, swapId, user, rating) ==
    IF db[swapId].requesterId = user
        THEN [db EXCEPT ![swapId].ratingByRequester = rating]
        ELSE [db EXCEPT ![swapId].ratingByReceiver = rating]

RECURSIVE SumRatings(_, _)
\* The sum of the rating column over the copies of the rows in rows.
SumRatings(rts, rows) ==
    IF rows = {} THEN 0
    ELSE LET r == CHOOSE r \in rows : TRUE
         IN  r.rating * CopiesIn(r, rts) + SumRatings(rts, rows \ {r})

RECURSIVE CountRatings(_, _)
\* COUNT(*) over the copies of the rows in rows.
CountRatings(rts, rows) ==
    IF rows = {} THEN 0
    ELSE LET r == CHOOSE r \in rows : TRUE
         IN  CopiesIn(r, rts) + CountRatings(rts, rows \ {r})

\* The average taken over the whole ratings table.
AverageRating_AllUsers(rts, userId) ==
    IF BagToSet(rts) = {} THEN [num |-> 0, den |-> 1]
    ELSE [num |-> SumRatings(rts, BagToSet(rts)),
          den |-> CountRatings(rts, BagToSet(rts))]

\* SELECT AVG(rating) FROM ratings WHERE userId = ?, then `|| 0`
AverageRating(rts, userId) ==
    LET received == {r \in BagToSet(rts) : r.userId = userId}
    IN  IF received = {} THEN [num |-> 0, den |-> 1]
        ELSE [num |-> SumRatings(rts, received),
              den |-> CountRatings(rts, received)]

\* UPDATE users SET rating = ? WHERE id = ?
updateUserAverageRating(rts, usr, userId) ==
    [u \in DOMAIN usr \cup {userId} |->
        IF u = userId THEN AverageRating(rts, userId) ELSE usr[u]]

\* users.rating REAL DEFAULT 0, as the fraction num/den.
UserRating(usr, userId) ==
    IF userId \in DOMAIN usr THEN usr[userId] ELSE [num |-> 0, den |-> 1]

\* The response of the rating handler up to its writes.
SubmitRatingResult(db, skl, user, swapId, rating) ==
    IF ~ValidRating(rating) THEN "ValidationError"
    ELSE IF ~CompletedSwap(db, swapId) THEN "NotFound"
    ELSE IF db[swapId].skillRequestedId \notin DOMAIN skl THEN "NotFound"
    ELSE IF ~PartOfSwap(db[swapId].requesterId,
                        SkillOwnerId(db, skl, swapId), user)
        THEN "NotAuthorized"
    ELSE "proceed"

\* The ratings table after the handler's UPDATE or INSERT.
RatingWrites(rts, swapId, user, ratedId, rating) ==
    LET existingRating == ExistingRating(rts, swapId, user)
    IN  IF existingRating # {}
            THEN UpdateRating(rts, CHOOSE r \in existingRating : TRUE,
                              rating)
            ELSE InsertRating(rts, swapId, user, ratedId, rating)

\* POST /api/ratings/swap/:swapId as a whole: the response and the tables
\* it leaves.
SubmitRatingEffect(db, skl, rts, usr, user, swapId, rating) ==
    LET result == SubmitRatingResult(db, skl, user, swapId, rating)
    IN  IF result = "proceed"
            THEN LET ratedId == RatedId(db[swapId].requesterId,
                                        SkillOwnerId(db, skl, swapId), user)
                     written == RatingWrites(rts, swapId, user, ratedId,
                                             rating)
                 IN  [result |-> "Created",
                      db |-> UpdateSwapRating(db, swapId, user, rating),
                      ratings |-> written,
                      users |-> updateUserAverageRating(written, usr,
                                                        ratedId)]
            ELSE [result |-> result, db |-> db, ratings |-> rts,
                  users |-> usr]

\* GET /api/ratings/user/:userId: avgRating in tenths, as
\* Number(avg.toFixed(1)) gives it, -1 for null; and totalRatings.
UserRatings(rts, userId) ==
    LET received == {r \in BagToSet(rts) : r.userId = userId}
        sum == SumRatings(rts, received)
        count == CountRatings(rts, received)
    IN  [avgRating |-> IF count = 0 THEN -1
                       ELSE (20 * sum + count) \div (2 * count),
         totalRatings |-> count]

----------------------------------------------------------------------------
(* POST, PUT and DELETE /api/skills (skills.routes).  A skill name is the  *)
(* sequence of its characters; a NULL description is "".  The category is  *)
(* left out.                                                               *)

Proficiencies == {"beginner", "intermediate", "advanced", "expert"}

\* validateBody(skillSchema)
ValidSkill(name, type, proficiency_level) ==
    /\ Len(name) >= MinNameLen
    /\ type \in {"offered", "wanted"}
    /\ proficiency_level \in Proficiencies

\* SELECT id FROM skills WHERE userId = ? AND name = ? AND
\*   ((isOffering = 1 AND ? = 'offered') OR (isSeeking = 1 AND ? = 'wanted'))
ExistingSkill(skl, userId, name, type) ==
    \E id \in DOMAIN skl :
        /\ skl[id].userId = userId
        /\ skl[id].name = name
        /\ \/ skl[id].isOffering /\ type = "offered"
           \/ skl[id].isSeeking /\ type = "wanted"

\* INSERT INTO skills (userId, name, isOffering, isSeeking, description,
\*   proficiency, category) VALUES (...)
InsertSkill(skl, id, userId, name, type, proficiency_level, description) ==
    [i \in DOMAIN skl \cup {id} |->
        IF i = id
            THEN [userId |-> userId,
                  name |-> name,
                  isOffering |-> (type = "offered"),
                  isSeeking |-> (type = "wanted"),
                  proficiency |-> proficiency_level,
                  description |-> description]
            ELSE skl[i]]

\* The ownership lookup by id alone.
OwnSkill_AnyOwner(skl, skillId, user) ==
    skillId \in DOMAIN skl

\* SELECT id FROM skills WHERE id = ? AND userId = ?
OwnSkill(skl, skillId, user) ==
    /\ skillId \in DOMAIN skl
    /\ skl[skillId].userId = user

\* UPDATE skills SET name = ?, isOffering = ?, isSeeking = ?,
\*   description = ?, proficiency = ? WHERE id = ? AND userId = ?
UpdateSkillRow(skl, skillId, user, name, type, proficiency_level, description) ==
    [i \in DOMAIN skl |->
        IF i = skillId /\ skl[i].userId = user
            THEN [skl[i] EXCEPT !.name = name,
                                !.isOffering = (type = "offered"),
                                !.isSeeking = (type = "wanted"),
                                !.proficiency = proficiency_level,
                                !.description = description]
            ELSE skl[i]]

\* DELETE FROM skills WHERE id = ? AND userId = ?
DeleteSkillRow(skl, skillId, user) ==
    [i \in {j \in DOMAIN skl : ~(j = skillId /\ skl[j].userId = user)} |->
        skl[i]]

\* swap_requests after the skills table has become skl: the rows whose
\* skillOfferedId or skillRequestedId is gone go with it (ON DELETE CASCADE).
CascadeSwaps(db, skl) ==
    [i \in {j \in DOMAIN db : /\ db[j].skillOfferedId \in DOMAIN skl
                              /\ db[j].skillRequestedId \in DOMAIN skl} |->
        db[i]]

\* POST /api/skills as a whole: the response and the table it leaves.
AddSkillEffect(skl, newId, user, name, type, proficiency_level, description) ==
    IF ~ValidSkill(name, type, proficiency_level)
        THEN [result |-> "ValidationError", skills |-> skl]
    ELSE IF ExistingSkill(skl, user, name, type)
        THEN [result |-> "DuplicateResource", skills |-> skl]
    ELSE [result |-> "Created",
          skills |-> InsertSkill(skl, newId, user, name, type,
                                 proficiency_level, description)]

\* PUT /api/skills/:id as a whole.
UpdateSkillEffect(skl, user, skillId, name, type, proficiency_level, description) ==
    IF ~ValidSkill(name, type, proficiency_level)
        THEN [result |-> "ValidationError", skills |-> skl]
    ELSE IF ~OwnSkill(skl, skillId, user)
        THEN [result |-> "NotFound", skills |-> skl]
    ELSE [result |-> "OK",
          skills |-> UpdateSkillRow(skl, skillId, user, name, type,
                                    proficiency_level, description)]

\* DELETE /api/skills/:id as a whole.
DeleteSkillEffect(skl, user, skillId) ==
    IF ~OwnSkill(skl, skillId, user)
        THEN [result |-> "NotFound", skills |-> skl]
    ELSE [result |-> "OK", skills |-> DeleteSkillRow(skl, skillId, user)]

----------------------------------------------------------------------------
(* Initial state: the schema's tables after the users have listed skills.  *)
(* Skill s belongs to user ((s-1) mod NumUsers)+1; the first two are       *)
(* offered, the others are wanted-direction entries.                       *)

InitSkills ==
    [s \in SkillIds |-> [userId |-> ((s - 1) % NumUsers) + 1,
                         isOffering |-> (s <= 2)]]

ChannelIds == 1..NumChannels

\* The user ids that connections announce; 0 is a URL without userId.
RelayUsers == {1, 2}

\* const clients = new Map(); no connection yet
NoConnections ==
    /\ clients = << >>
    /\ conns = << >>

\* No users.rating has been written: each is the DEFAULT 0.
InitUsers == << >>

\* No request has reached the routes, and no platform message was sent.
NoApiRequests ==
    /\ api = << >>
    /\ adminMessages = << >>

\* No migrate has run: the migrations table is empty.
NotMigrated ==
    /\ migrations = << >>
    /\ schema = EmptyBag
    /\ runner = << >>

\* No browser session has mounted.
NoSessions == sessions = << >>

NoRequest == [op |-> "none", status |-> "", result |-> ""]

Idle == [pc |-> "idle", op |-> "none", user |-> 0, id |-> 0, status |-> "",
         result |-> "", overlapped |-> FALSE]

Slots == {1, 2}

Init ==
    /\ skills = InitSkills
    /\ swap_requests = << >>
    /\ lastID = 0
    /\ last = NoRequest
    /\ reqs = [i \in Slots |-> Idle]
    /\ txn = FALSE
    /\ ratings = EmptyBag
    /\ users = InitUsers
    /\ skillsLastID = NumSkills
    /\ NoConnections
    /\ NoApiRequests
    /\ NotMigrated
    /\ NoSessions

----------------------------------------------------------------------------
(* Spec: one request at a time.                                            *)

\* POST /api/swaps
Create(user, providerId, offeredSkillId, wantedSkillId) ==
    \E e \in {CreateEffect(swap_requests, skills, lastID + 1, user,
                          providerId, offeredSkillId, wantedSkillId)} :
        /\ e.result = "Created" => lastID < MaxSwaps
        /\ swap_requests' = e.db
        /\ lastID' = IF e.result = "Created" THEN lastID + 1 ELSE lastID
        /\ last' = [op |-> "create", status |-> "", result |-> e.result]
        /\ UNCHANGED <<skills, reqs, txn, otherVars>>

\* PUT /api/swaps/:id/status
Transition(user, swapRequestId, status) ==
    \E e \in {TransitionEffect(swap_requests, skills, user,
                                swapRequestId, status)} :
        /\ swap_requests' = e.db
        /\ last' = [op |-> "transition", status |-> status,
                    result |-> e.result]
        /\ UNCHANGED <<skills, lastID, reqs, txn, otherVars>>

\* DELETE /api/swaps/:id
Delete(user, swapRequestId) ==
    \E e \in {DeleteEffect(swap_requests, skills, user, swapRequestId)} :
        /\ swap_requests' = e.db
        /\ last' = [op |-> "delete", status |-> "", result |-> e.result]
        /\ UNCHANGED <<skills, lastID, reqs, txn, otherVars>>

DoCreate ==
    \E user \in Users, providerId \in Users,
       offeredSkillId \in SkillIds, wantedSkillId \in SkillIds :
        Create(user, providerId, offeredSkillId, wantedSkillId)

DoTransition ==
    \E user \in Users, swapRequestId \in SwapIds, status \in Statuses :
        Transition(user, swapRequestId, status)

DoDelete ==
    \E user \in Users, swapRequestId \in SwapIds :
        Delete(user, swapRequestId)

Next == DoCreate \/ DoTransition \/ DoDelete

Spec == Init /\ [][Next]_vars

----------------------------------------------------------------------------
(* SpecConc: two requests in flight on the shared connection.  getDatabase *)
(* hands every handler the same connection, so each statement runs against *)
(* the tables as the statements before it left them, and BEGIN TRANSACTION *)
(* fails while another handler's transaction is open.                      *)

\* The tables after user 1 has asked for user 2's skill; the provider may
\* have accepted already.
InitConc ==
    /\ skills = InitSkills
    /\ \E status \in {"pending", "accepted"} :
           swap_requests =
               [InsertSwap(<< >>, 1, 1, 1, 2) EXCEPT ![1].status = status]
    /\ lastID = 1
    /\ last = NoRequest
    /\ reqs = [i \in Slots |-> Idle]
    /\ txn = FALSE
    /\ ratings = EmptyBag
    /\ users = InitUsers
    /\ skillsLastID = NumSkills
    /\ NoConnections
    /\ NoApiRequests
    /\ NotMigrated
    /\ NoSessions

InFlight(r) == r.pc \notin {"idle", "done"}

Other(i) == CHOOSE j \in Slots : j # i

Respond(i, result) ==
    reqs' = [reqs EXCEPT ![i].pc = "done", ![i].result = result]

Goto(i, pc) ==
    reqs' = [reqs EXCEPT ![i].pc = pc]

\* A PUT /api/swaps/:id/status arrives.
Issue(i, user, swapRequestId, status) ==
    /\ ~InFlight(reqs[i])
    /\ reqs' = [j \in Slots |->
                   IF j = i
                       THEN [pc |-> "select", op |-> "transition",
                             user |-> user, id |-> swapRequestId,
                             status |-> status, result |-> "",
                             overlapped |-> InFlight(reqs[Other(i)])]
                       ELSE [reqs[j] EXCEPT
                                !.overlapped = InFlight(reqs[j])]]
    /\ UNCHANGED <<skills, swap_requests, lastID, last, txn, otherVars>>

\* Validation, the SELECT of the request and the authorization matrix.
TSelect(i) ==
    /\ reqs[i].pc = "select"
    /\ \E result \in {TransitionResult(swap_requests, skills, reqs[i].user,
                                       reqs[i].id, reqs[i].status)} :
           IF result = "proceed" THEN Goto(i, "begin")
                                 ELSE Respond(i, result)
    /\ UNCHANGED <<skills, swap_requests, lastID, last, txn, otherVars>>

\* await db.run('BEGIN TRANSACTION')
TBegin(i) ==
    /\ reqs[i].pc = "begin"
    /\ IF txn
          THEN Respond(i, "InternalError") /\ UNCHANGED txn
          ELSE Goto(i, "update") /\ txn' = TRUE
    /\ UNCHANGED <<skills, swap_requests, lastID, last, otherVars>>

\* await db.run('UPDATE swap_requests SET status = ? ...')
TUpdate(i) ==
    /\ reqs[i].pc = "update"
    /\ swap_requests' = UpdateStatus(swap_requests, reqs[i].id,
                                     reqs[i].status)
    /\ Goto(i, IF reqs[i].status = "completed" THEN "stamp" ELSE "commit")
    /\ UNCHANGED <<skills, lastID, last, txn, otherVars>>

\* await db.run('UPDATE swap_requests SET completedAt = ...')
TStamp(i) ==
    /\ reqs[i].pc = "stamp"
    /\ swap_requests' = UpdateCompletedAt(swap_requests, reqs[i].id)
    /\ Goto(i, "commit")
    /\ UNCHANGED <<skills, lastID, last, txn, otherVars>>

\* await db.run('COMMIT'); res.json(...)
TCommit(i) ==
    /\ reqs[i].pc = "commit"
    /\ IF txn
          THEN Respond(i, "OK") /\ txn' = FALSE
          ELSE Respond(i, "InternalError") /\ UNCHANGED txn
    /\ UNCHANGED <<skills, swap_requests, lastID, last, otherVars>>

DoIssue ==
    \E i \in Slots, user \in Users, swapRequestId \in SwapIds,
       status \in Statuses :
        Issue(i, user, swapRequestId, status)

DoSelect == \E i \in Slots : TSelect(i)

DoBegin == \E i \in Slots : TBegin(i)

DoUpdate == \E i \in Slots : TUpdate(i)

DoStamp == \E i \in Slots : TStamp(i)

DoCommit == \E i \in Slots : TCommit(i)

NextConc == DoIssue \/ DoSelect \/ DoBegin \/ DoUpdate \/ DoStamp \/ DoCommit

SpecConc == InitConc /\ [][NextConc]_vars

----------------------------------------------------------------------------
(* SpecRace: Create, Transition and Delete requests, two in flight on the  *)
(* shared connection, every awaited statement a step of its own.  The      *)
(* tables start without swap requests.  A Delete request remembers in      *)
(* status the status its row had when the DELETE statement ran.            *)

InitRace ==
    /\ skills = InitSkills
    /\ swap_requests = << >>
    /\ lastID = 0
    /\ last = NoRequest
    /\ reqs = [i \in Slots |-> Idle]
    /\ txn = FALSE
    /\ ratings = EmptyBag
    /\ users = InitUsers
    /\ skillsLastID = NumSkills
    /\ NoConnections
    /\ NoApiRequests
    /\ NotMigrated
    /\ NoSessions

\* The requester and the provider of the racing requests.
RaceUsers == {1, 2}

\* The statuses that the racing Transition requests ask for.
RaceStatuses == {"accepted", "completed"}

\* The first three checks of DELETE /:id: the request, its skill, the caller.
DeleteAuthorize(db, skl, user, swapRequestId) ==
    IF swapRequestId \notin DOMAIN db THEN "NotFound"
    ELSE IF db[swapRequestId].skillRequestedId \notin DOMAIN skl
        THEN "NotFound"
    ELSE IF /\ skl[db[swapRequestId].skillRequestedId].userId # user
            /\ db[swapRequestId].requesterId # user
        THEN "NotAuthorized"
    ELSE "proceed"

\* SELECT status FROM swap_requests WHERE id = ? and the check on it
DeleteStatus(db, swapRequestId) ==
    IF swapRequestId \notin DOMAIN db THEN "NotFound"
    ELSE IF db[swapRequestId].status # "pending"
        THEN "InvalidStateTransition"
    ELSE "proceed"

\* The two SELECTs on skills of POST /
CreateSkills(skl, user, providerId, offeredSkillId, wantedSkillId) ==
    IF ~OfferedSkillOf(skl, offeredSkillId, user)
        THEN "InvalidSkillOwnership"
    ELSE IF ~OfferedSkillOf(skl, wantedSkillId, providerId)
        THEN "InvalidSkillOwnership"
    ELSE "proceed"

\* A request arrives in slot i.
Arrive(i, r) ==
    /\ ~InFlight(reqs[i])
    /\ reqs' = [j \in Slots |->
                   IF j = i
                       THEN [r EXCEPT !.overlapped = InFlight(reqs[Other(i)])]
                       ELSE [reqs[j] EXCEPT !.overlapped = InFlight(reqs[j])]]
    /\ UNCHANGED <<skills, swap_requests, lastID, last, txn, otherVars>>

\* The POST / requests on their way to the INSERT.
Creating == {j \in Slots : InFlight(reqs[j]) /\ reqs[j].op = "create"}

\* A PUT /api/swaps/:id/status arrives.
IssueTransition(i, user, swapRequestId, status) ==
    Arrive(i, [pc |-> "select", op |-> "transition", user |-> user, id |-> swapRequestId, status |-> status, result |-> "", overlapped |-> FALSE])

\* A DELETE /api/swaps/:id arrives.
IssueDelete(i, user, swapRequestId) ==
    Arrive(i, [pc |-> "dselect", op |-> "delete", user |-> user, id |-> swapRequestId, status |-> "", result |-> "", overlapped |-> FALSE])

\* A POST /api/swaps arrives.
IssueCreate(i, user, providerId, offeredSkillId, wantedSkillId) ==
    /\ lastID + Cardinality(Creating) < MaxSwaps
    /\ Arrive(i, [pc |-> "cskills", op |-> "create", user |-> user, id |-> 0, status |-> "", result |-> "", overlapped |-> FALSE, providerId |-> providerId, offeredSkillId |-> offeredSkillId, wantedSkillId |-> wantedSkillId])

\* The SELECT of the request, the SELECT of its skill and the caller check.
DSelect(i) ==
    /\ reqs[i].pc = "dselect"
    /\ \E result \in {DeleteAuthorize(swap_requests, skills, reqs[i].user, reqs[i].id)} :
           IF result = "proceed" THEN Goto(i, "dstatus") ELSE Respond(i, result)
    /\ UNCHANGED <<skills, swap_requests, lastID, last, txn, otherVars>>

\* The SELECT of the status and the check that it is pending.
DStatus(i) ==
    /\ reqs[i].pc = "dstatus"
    /\ \E result \in {DeleteStatus(swap_requests, reqs[i].id)} :
           IF result = "proceed" THEN Goto(i, "ddelete") ELSE Respond(i, result)
    /\ UNCHANGED <<skills, swap_requests, lastID, last, txn, otherVars>>

\* await db.run('DELETE FROM swap_requests WHERE id = ?'); res.json(...)
DDelete(i) ==
    /\ reqs[i].pc = "ddelete"
    /\ swap_requests' = DeleteSwap(swap_requests, reqs[i].id)
    /\ reqs' = [reqs EXCEPT ![i].pc = "done", ![i].result = "OK",
                            ![i].status = IF reqs[i].id \in DOMAIN swap_requests
                                              THEN swap_requests[reqs[i].id].status
                                              ELSE ""]
    /\ UNCHANGED <<skills, lastID, last, txn, otherVars>>

\* The SELECTs of the offered and of the wanted skill.
CSkills(i) ==
    /\ reqs[i].pc = "cskills"
    /\ \E result \in {CreateSkills(skills, reqs[i].user, reqs[i].providerId, reqs[i].offeredSkillId, reqs[i].wantedSkillId)} :
           IF result = "proceed" THEN Goto(i, "cexisting") ELSE Respond(i, result)
    /\ UNCHANGED <<skills, swap_requests, lastID, last, txn, otherVars>>

\* The SELECT of an existing pending request.
CExisting(i) ==
    /\ reqs[i].pc = "cexisting"
    /\ IF ExistingRequest(swap_requests, reqs[i].user, reqs[i].wantedSkillId)
           THEN Respond(i, "DuplicatePendingRequest")
           ELSE Goto(i, "cinsert")
    /\ UNCHANGED <<skills, swap_requests, lastID, last, txn, otherVars>>

\* await db.run('INSERT INTO swap_requests ...'); res.status(201)
CInsert(i) ==
    /\ reqs[i].pc = "cinsert"
    /\ swap_requests' = InsertSwap(swap_requests, lastID + 1, reqs[i].user, reqs[i].offeredSkillId, reqs[i].wantedSkillId)
    /\ lastID' = lastID + 1
    /\ reqs' = [reqs EXCEPT ![i].pc = "done", ![i].result = "Created", ![i].id = lastID + 1]
    /\ UNCHANGED <<skills, last, txn, otherVars>>

DoIssueTransition ==
    \E i \in Slots, user \in RaceUsers, swapRequestId \in SwapIds, status \in RaceStatuses :
        IssueTransition(i, user, swapRequestId, status)

DoIssueDelete ==
    \E i \in Slots, user \in RaceUsers, swapRequestId \in SwapIds :
        IssueDelete(i, user, swapRequestId)

DoIssueCreate ==
    \E i \in Slots, user \in RaceUsers, providerId \in RaceUsers, offeredSkillId \in SkillIds, wantedSkillId \in SkillIds :
        IssueCreate(i, user, providerId, offeredSkillId, wantedSkillId)

DoDSelect == \E i \in Slots : DSelect(i)

DoDStatus == \E i \in Slots : DStatus(i)

DoDDelete == \E i \in Slots : DDelete(i)

DoCSkills == \E i \in Slots : CSkills(i)

DoCExisting == \E i \in Slots : CExisting(i)

DoCInsert == \E i \in Slots : CInsert(i)

NextRace ==
    \/ DoIssueTransition \/ DoSelect \/ DoBegin \/ DoUpdate \/ DoStamp \/ DoCommit
    \/ DoIssueDelete \/ DoDSelect \/ DoDStatus \/ DoDDelete
    \/ DoIssueCreate \/ DoCSkills \/ DoCExisting \/ DoCInsert

SpecRace == InitRace /\ [][NextRace]_vars

----------------------------------------------------------------------------
(* SpecRate: the swap handlers and the rating handler, one request at a    *)
(* time.                                                                   *)

RatingInputs == {MinRating, MaxRating, MaxRating + 1}

\* POST /api/ratings/swap/:swapId.  last.status is the stored status of the
\* addressed swap request, "" when there is none; last.op is "rerate" when
\* the rater has a rating of that swap request stored already.
SubmitRating(user, swapId, rating) ==
    \E e \in {SubmitRatingEffect(swap_requests, skills, ratings, users,
                                 user, swapId, rating)} :
        /\ swap_requests' = e.db
        /\ ratings' = e.ratings
        /\ users' = e.users
        /\ last' = [op |-> IF ExistingRating(ratings, swapId, user) # {}
                                THEN "rerate" ELSE "rate",
                    status |-> IF swapId \in DOMAIN swap_requests
                                   THEN swap_requests[swapId].status
                                   ELSE "",
                    result |-> e.result]
        /\ UNCHANGED <<skills, lastID, reqs, txn, skillsLastID, relayVars,
                    platformVars, outsideVars>>

DoSubmitRating ==
    \E user \in Users, swapId \in SwapIds, rating \in RatingInputs :
        SubmitRating(user, swapId, rating)

DoCreateRated == lastID < MaxRatedSwaps /\ DoCreate

NextRate == DoCreateRated \/ DoTransition \/ DoSubmitRating

SpecRate == Init /\ [][NextRate]_vars

----------------------------------------------------------------------------
(* SpecList: the swap handlers and the listing, one request at a time.     *)
(* last keeps the listing's caller, its filters and the ids it returned.   *)

\* GET /api/swaps?status=..&type=..
List(user, status, type) ==
    /\ last' = [op |-> "list", status |-> status, result |-> "OK", type |-> type, user |-> user, rows |-> ListSwaps(swap_requests, skills, user, status, type)]
    /\ UNCHANGED <<skills, swap_requests, lastID, reqs, txn, otherVars>>

DoList ==
    \E user \in Users, status \in StatusFilters, type \in TypeFilters :
        List(user, status, type)

NextList == DoCreateRated \/ DoTransition \/ DoList

SpecList == Init /\ [][NextList]_vars

----------------------------------------------------------------------------
(* SpecSkills: the skill handlers, one request at a time, from an empty    *)
(* skills table.  last.status says whether the addressed id was stored.    *)

SkillNames == {<<"g", "o">>, <<"s", "q", "l">>, <<"c">>}

SkillTypes == {"offered", "wanted"}

\* The users who send skill requests: each owns the skills it has added and
\* is a stranger to the other's.
SkillUsers == {1, 2}

\* The proficiency_level and description sent along.
SkillDetails ==
    {[proficiency_level |-> "intermediate", description |-> ""],
     [proficiency_level |-> "expert", description |-> "text"]}

InitSkillsSpec ==
    /\ skills = << >>
    /\ skillsLastID = 0
    /\ swap_requests = << >>
    /\ lastID = 0
    /\ last = NoRequest
    /\ reqs = [i \in Slots |-> Idle]
    /\ txn = FALSE
    /\ ratings = EmptyBag
    /\ users = InitUsers
    /\ NoConnections
    /\ NoApiRequests
    /\ NotMigrated
    /\ NoSessions

IsStored(skillId) == IF skillId \in DOMAIN skills THEN "stored" ELSE ""

\* POST /api/skills
AddSkill(user, name, type, details) ==
    \E e \in {AddSkillEffect(skills, skillsLastID + 1, user, name, type,
                             details.proficiency_level,
                             details.description)} :
        /\ e.result = "Created" => skillsLastID < NumSkills
        /\ skills' = e.skills
        /\ skillsLastID' = IF e.result = "Created" THEN skillsLastID + 1
                                                   ELSE skillsLastID
        /\ last' = [op |-> "addSkill", status |-> "", result |-> e.result]
        /\ UNCHANGED <<swap_requests, lastID, reqs, txn, ratings, users,
                       relayVars,
                    platformVars, outsideVars>>

\* PUT /api/skills/:id
UpdateSkill(user, skillId, name, type, details) ==
    \E e \in {UpdateSkillEffect(skills, user, skillId, name, type,
                                details.proficiency_level,
                                details.description)} :
        /\ skills' = e.skills
        /\ last' = [op |-> "updateSkill", status |-> IsStored(skillId),
                    result |-> e.result]
        /\ UNCHANGED <<swap_requests, lastID, reqs, txn, ratings, users,
                       skillsLastID, relayVars,
                    platformVars, outsideVars>>

\* DELETE /api/skills/:id
DeleteSkill(user, skillId) ==
    \E e \in {DeleteSkillEffect(skills, user, skillId)} :
        /\ skills' = e.skills
        /\ swap_requests' = CascadeSwaps(swap_requests, e.skills)
        /\ last' = [op |-> "deleteSkill", status |-> IsStored(skillId),
                    result |-> e.result]
        /\ UNCHANGED <<lastID, reqs, txn, ratings, users, skillsLastID,
                       relayVars,
                    platformVars, outsideVars>>

DoAddSkill ==
    \E user \in SkillUsers, name \in SkillNames, type \in SkillTypes,
       details \in SkillDetails :
        AddSkill(user, name, type, details)

DoUpdateSkill ==
    \E user \in SkillUsers, skillId \in SkillIds, name \in SkillNames,
       type \in SkillTypes, details \in SkillDetails :
        UpdateSkill(user, skillId, name, type, details)

DoDeleteSkill ==
    \E user \in SkillUsers, skillId \in SkillIds :
        DeleteSkill(user, skillId)

NextSkills == DoAddSkill \/ DoUpdateSkill \/ DoDeleteSkill

SpecSkills == InitSkillsSpec /\ [][NextSkills]_vars

----------------------------------------------------------------------------
(* SpecRelay: wss.on('connection') and the callbacks it registers.  A      *)
(* connection is "open", "closing" after the server's ws.close(),          *)
(* "terminated" after ws.terminate(), "hungup" when the peer has closed or *)
(* the socket has failed, and "closed" once its 'close' event has been     *)
(* delivered.  pingInterval says that the connection's interval timer is   *)
(* armed, onClose that handleClose is registered.  token is the user whose *)
(* valid identity token the client sent in the URL, 0 when it sent none or *)
(* an invalid one; events are the user ids whose notifications the         *)
(* connection has been sent.                                               *)

\* clients.get(userId), 0 for undefined
Get(cl, userId) ==
    IF userId \in DOMAIN cl THEN cl[userId] ELSE 0

\* clients.set(userId, ws)
Set(cl, userId, ch) ==
    [u \in DOMAIN cl \cup {userId} |-> IF u = userId THEN ch ELSE cl[u]]

\* ws.close(code, reason): starts the closing handshake of an open socket.
Close(c) ==
    IF c.state = "open" THEN [c EXCEPT !.state = "closing"] ELSE c

\* ws.terminate(): destroys the socket unless it is closed already.
Terminate(c) ==
    IF c.state = "closed" THEN c ELSE [c EXCEPT !.state = "terminated"]

\* The replacement leaving the existing connection as it is.
CloseExisting_Keep(cns, existingConnection) ==
    cns

\* if (existingConnection) existingConnection.close(1000, ...)
CloseExisting(cns, existingConnection) ==
    IF existingConnection # 0
        THEN [cns EXCEPT ![existingConnection] = Close(@)]
        ELSE cns

\* clients.delete(userId), whichever connection the entry holds
DeleteIfCurrent_Always(cl, userId, ch) ==
    [u \in DOMAIN cl \ {userId} |-> cl[u]]

\* if (clients.get(userId) === ws) clients.delete(userId)
DeleteIfCurrent(cl, userId, ch) ==
    IF Get(cl, userId) = ch
        THEN [u \in DOMAIN cl \ {userId} |-> cl[u]]
        ELSE cl

\* The heartbeat taking every connection for stale.
Stale_Always(isAlive) ==
    TRUE

\* if (isAlive === false)
Stale(isAlive) ==
    isAlive = FALSE

\* The connections with their new member.
Accept(cns, ch, c) ==
    [i \in DOMAIN cns \cup {ch} |-> IF i = ch THEN c ELSE cns[i]]

\* A connection arrives with ?userId=..&token=.. : the interval is armed,
\* then the userId of the URL is looked at.
Connect(ch, userId, token) ==
    /\ ch \notin DOMAIN conns
    /\ IF userId = 0
           THEN /\ conns' = Accept(conns, ch,
                                   [state |-> "closing", userId |-> 0,
                                    isAlive |-> TRUE, pingInterval |-> TRUE,
                                    onClose |-> FALSE, token |-> token,
                                    events |-> {}])
                /\ UNCHANGED clients
           ELSE /\ conns' = Accept(CloseExisting(conns, Get(clients, userId)),
                                   ch,
                                   [state |-> "open", userId |-> userId,
                                    isAlive |-> TRUE, pingInterval |-> TRUE,
                                    onClose |-> TRUE, token |-> token,
                                    events |-> {}])
                /\ clients' = Set(clients, userId, ch)
    /\ UNCHANGED httpVars

\* The interval fires: terminate a stale connection, else probe it.
Tick(ch) ==
    /\ ch \in DOMAIN conns
    /\ conns[ch].pingInterval
    /\ conns' = [conns EXCEPT ![ch] =
                     IF Stale(@.isAlive) THEN Terminate(@)
                                         ELSE [@ EXCEPT !.isAlive = FALSE]]
    /\ UNCHANGED <<clients, httpVars>>

\* ws.on('pong'): the peer answers the probe.
Pong(ch) ==
    /\ ch \in DOMAIN conns
    /\ conns[ch].state = "open"
    /\ ~conns[ch].isAlive
    /\ conns' = [conns EXCEPT ![ch].isAlive = TRUE]
    /\ UNCHANGED <<clients, httpVars>>

\* The peer closes the connection or the connection is lost.
HangUp(ch) ==
    /\ ch \in DOMAIN conns
    /\ conns[ch].state = "open"
    /\ conns' = [conns EXCEPT ![ch].state = "hungup"]
    /\ UNCHANGED <<clients, httpVars>>

\* ws.on('error'): handleClose runs, the socket goes down.
Error(ch) ==
    /\ ch \in DOMAIN conns
    /\ conns[ch].state = "open"
    /\ conns' = [conns EXCEPT ![ch].state = "hungup",
                              ![ch].pingInterval = FALSE]
    /\ clients' = DeleteIfCurrent(clients, conns[ch].userId, ch)
    /\ UNCHANGED httpVars

\* The 'close' event of a connection is delivered; handleClose runs when it
\* is registered.
CloseEvent(ch) ==
    /\ ch \in DOMAIN conns
    /\ conns[ch].state \in {"closing", "terminated", "hungup"}
    /\ conns' = [conns EXCEPT ![ch].state = "closed",
                              ![ch].pingInterval =
                                  IF conns[ch].onClose THEN FALSE ELSE @]
    /\ clients' = IF conns[ch].onClose
                      THEN DeleteIfCurrent(clients, conns[ch].userId, ch)
                      ELSE clients
    /\ UNCHANGED httpVars

\* The browser client: the signed-in user's id with that user's token.
DoConnect ==
    \E ch \in ChannelIds, userId \in RelayUsers \cup {0} :
        Connect(ch, userId, userId)

DoTick == \E ch \in ChannelIds : Tick(ch)

DoPong == \E ch \in ChannelIds : Pong(ch)

DoHangUp == \E ch \in ChannelIds : HangUp(ch)

DoError == \E ch \in ChannelIds : Error(ch)

DoCloseEvent == \E ch \in ChannelIds : CloseEvent(ch)

NextRelay ==
    DoConnect \/ DoTick \/ DoPong \/ DoHangUp \/ DoError \/ DoCloseEvent

SpecRelay == Init /\ [][NextRelay]_vars

\* An armed interval fires again and again; a socket that is closing,
\* terminated or hung up gets its 'close' event.
SpecRelayFair ==
    /\ SpecRelay
    /\ \A ch \in ChannelIds : WF_vars(Tick(ch)) /\ WF_vars(CloseEvent(ch))

----------------------------------------------------------------------------
(* SpecPush: the relay with clients that send any userId with any token,   *)
(* and with notifications pushed to users.                                 *)

\* client.send(...) when clients.get(userId) is an open connection
SendTo(cns, cl, userId) ==
    IF Get(cl, userId) # 0 /\ cns[Get(cl, userId)].state = "open"
        THEN [cns EXCEPT ![Get(cl, userId)].events = @ \cup {userId}]
        ELSE cns

\* broadcastNotification(userId, notification)
Notify(userId) ==
    /\ conns' = SendTo(conns, clients, userId)
    /\ UNCHANGED <<clients, httpVars>>

DoConnectAny ==
    \E ch \in ChannelIds, userId \in RelayUsers \cup {0},
       token \in RelayUsers \cup {0} :
        Connect(ch, userId, token)

DoNotify == \E userId \in RelayUsers : Notify(userId)

NextPush ==
    DoConnectAny \/ DoNotify \/ DoTick \/ DoPong \/ DoHangUp \/ DoError
        \/ DoCloseEvent

SpecPush == Init /\ [][NextPush]_vars

----------------------------------------------------------------------------
(* SpecApi: the routes mounted under /api and the middleware in front of   *)
(* each handler.  A request carries a token (none, one that jwt.verify     *)
(* rejects, or the valid token of a user) and a body that passes the       *)
(* route's validation or not.  Only the handlers of the platform messages  *)
(* are spelled out; any other handler just answers.                        *)

\* The users that log in here; the users table marks the Admins isAdmin.
ApiUsers == {1, 2}

Admins == {1}

NoToken == [kind |-> "none", id |-> 0, is_admin |-> FALSE]

InvalidToken == [kind |-> "invalid", id |-> 0, is_admin |-> FALSE]

\* generateToken({ id, email, is_admin: Boolean(user.isAdmin) })
generateToken(user) == [kind |-> "valid", id |-> user, is_admin |-> (user \in Admins)]

Tokens == {NoToken, InvalidToken} \cup {generateToken(user) : user \in ApiUsers}

\* req.user before authenticateToken has run
NoUser == [id |-> 0, is_admin |-> FALSE]

Route(method, path, chain) == [method |-> method, path |-> path, chain |-> chain]

AuthRoutes ==
    { Route("POST", "/api/auth/register", <<"validateBody">>),
      Route("POST", "/api/auth/login", <<"validateBody">>) }

UsersRoutes ==
    { Route("GET", "/api/users/profile", <<"authenticateToken">>),
      Route("PUT", "/api/users/profile", <<"authenticateToken">>),
      Route("GET", "/api/users/search", <<"authenticateToken">>),
      Route("GET", "/api/users/:id", <<"authenticateToken">>) }

SkillsRoutes ==
    { Route("GET", "/api/skills", <<"authenticateToken">>),
      Route("POST", "/api/skills", <<"authenticateToken", "validateBody">>),
      Route("PUT", "/api/skills/:id", <<"authenticateToken", "validateBody">>),
      Route("DELETE", "/api/skills/:id", <<"authenticateToken">>),
      Route("GET", "/api/skills/popular", <<"authenticateToken">>) }

SwapsRoutes ==
    { Route("GET", "/api/swaps", <<"authenticateToken">>),
      Route("POST", "/api/swaps", <<"authenticateToken", "validateBody">>),
      Route("PUT", "/api/swaps/:id/status", <<"authenticateToken">>),
      Route("DELETE", "/api/swaps/:id", <<"authenticateToken">>) }

RatingsRoutes ==
    { Route("POST", "/api/ratings/swap/:swapId", <<"authenticateToken", "validateBody">>),
      Route("GET", "/api/ratings/user/:userId", <<"authenticateToken">>) }

AdminRoutes ==
    { Route("GET", "/api/admin/users", <<"authenticateToken", "requireAdmin">>),
      Route("PUT", "/api/admin/users/:id/ban", <<"authenticateToken", "requireAdmin">>),
      Route("GET", "/api/admin/swaps", <<"authenticateToken", "requireAdmin">>),
      Route("GET", "/api/admin/stats", <<"authenticateToken", "requireAdmin">>),
      Route("POST", "/api/admin/messages", <<"authenticateToken", "requireAdmin">>),
      Route("GET", "/api/admin/messages", <<"authenticateToken", "requireAdmin">>) }

\* app.get('/api/health', ...): no middleware of its own
HealthRoute == Route("GET", "/api/health", << >>)

Routes ==
    AuthRoutes \cup UsersRoutes \cup SkillsRoutes \cup SwapsRoutes
        \cup RatingsRoutes \cup AdminRoutes \cup {HealthRoute}

\* Every verified token passes.
authenticateToken_AcceptInvalid(token) ==
    IF token.kind = "none" THEN "Unauthenticated" ELSE "next"

\* 401 'Access token required', 403 'Invalid or expired token', or next()
authenticateToken(token) ==
    IF token.kind = "none"
        THEN "Unauthenticated"
        ELSE IF token.kind = "invalid" THEN "InvalidToken" ELSE "next"

\* 403 'Admin access required', or next()
requireAdmin(user) == IF ~user.is_admin THEN "NotAuthorized" ELSE "next"

\* 400 with the schema's errors, or next()
validateBody(bodyOk) == IF ~bodyOk THEN "ValidationError" ELSE "next"

\* One middleware of a route's chain: its answer, and req.user after it.
Middleware(name, token, bodyOk, user) ==
    IF name = "authenticateToken"
        THEN [result |-> authenticateToken(token),
              user |-> IF authenticateToken(token) = "next"
                           THEN [id |-> token.id, is_admin |-> token.is_admin]
                           ELSE user]
        ELSE [result |-> IF name = "requireAdmin"
                             THEN requireAdmin(user)
                             ELSE validateBody(bodyOk),
              user |-> user]

RECURSIVE RunChain(_, _, _, _)
\* Express runs the chain in order; the first answer ends the request.
RunChain(chain, token, bodyOk, user) ==
    IF chain = << >>
        THEN [result |-> "next", user |-> user]
        ELSE LET m == Middleware(Head(chain), token, bodyOk, user)
             IN  IF m.result # "next"
                     THEN m
                     ELSE RunChain(Tail(chain), token, bodyOk, m.user)

\* INSERT INTO adminMessages (adminId, title, content, type)
InsertAdminMessage(msgs, adminId) == Append(msgs, adminId)

\* The handler behind the chain: its answer and the adminMessages table.
Handler(route, bodyOk, user, msgs) ==
    IF route.method = "POST" /\ route.path = "/api/admin/messages"
        THEN IF ~bodyOk
                 THEN [result |-> "ValidationError", adminMessages |-> msgs]
                 ELSE [result |-> "Created",
                       adminMessages |-> InsertAdminMessage(msgs, user.id)]
        ELSE [result |-> "OK", adminMessages |-> msgs]

\* A request through its route: the chain, then the handler.
ApiEffect(route, token, bodyOk, msgs) ==
    LET c == RunChain(route.chain, token, bodyOk, NoUser)
    IN  IF c.result # "next"
            THEN [result |-> c.result, handled |-> FALSE, user |-> c.user,
                  adminMessages |-> msgs]
            ELSE [result |-> Handler(route, bodyOk, c.user, msgs).result,
                  handled |-> TRUE, user |-> c.user,
                  adminMessages |-> Handler(route, bodyOk, c.user, msgs).adminMessages]

\* The routes whose handler has run for a request without a valid token.
Unauthenticated == IF api = << >> THEN {} ELSE api.unauthenticated

ApiRequest(route, token, bodyOk) ==
    \E e \in {ApiEffect(route, token, bodyOk, adminMessages)} :
        /\ Len(e.adminMessages) <= MaxMessages
        /\ adminMessages' = e.adminMessages
        /\ api' = [method |-> route.method, path |-> route.path,
                   token |-> token, result |-> e.result,
                   handled |-> e.handled,
                   unauthenticated |->
                       IF e.handled /\ token.kind # "valid"
                           THEN Unauthenticated \cup {<<route.method, route.path>>}
                           ELSE Unauthenticated]
        /\ UNCHANGED <<skills, swap_requests, lastID, last, reqs, txn,
                       ratings, users, skillsLastID, relayVars, outsideVars>>

DoApiRequest ==
    \E route \in Routes, token \in Tokens, bodyOk \in BOOLEAN :
        ApiRequest(route, token, bodyOk)

NextApi == DoApiRequest

SpecApi == Init /\ [][NextApi]_vars

----------------------------------------------------------------------------
(* SpecMigrate: MigrationRunner.migrate over the registered migrations,    *)
(* statement by statement.  schema is the bag of the migrations whose up   *)
(* has changed the database; BEGIN TRANSACTION remembers the database and  *)
(* ROLLBACK puts it back.  An up that fails may have made its changes      *)
(* before it throws.  runner.plan and runner.failed remember the run's     *)
(* pending migrations and the one whose up threw.                          *)

\* this.migrations, in the order of addMigration
Registry == [i \in 1..NumMigrations |-> i]

IdleRunner == [pc |-> "idle", pending |-> << >>, plan |-> << >>, failed |-> 0, result |-> "", runs |-> 0, snapshot |-> << >>]

Runner == IF runner = << >> THEN IdleRunner ELSE runner

Range(seq) == {seq[i] : i \in DOMAIN seq}

\* this.migrations.filter(m => !appliedIds.has(m.id)), run against every id
PendingMigrations_All(registry, applied) == registry

\* this.migrations.filter(m => !appliedIds.has(m.id))
PendingMigrations(registry, applied) == SelectSeq(registry, LAMBDA id : id \notin Range(applied))

\* ROLLBACK that keeps what the transaction has written
Rollback_Keep(db, snapshot) == db

\* ROLLBACK: the database as BEGIN TRANSACTION found it
Rollback(db, snapshot) == snapshot

\* migrate(), up to the loop: init, the SELECT, the filter, the early return
Migrate ==
    /\ Runner.pc = "idle"
    /\ Runner.runs < MaxRuns
    /\ \E pending \in {PendingMigrations(Registry, migrations)} :
           runner' = [Runner EXCEPT !.pc = IF pending = << >> THEN "idle" ELSE "begin",
                                    !.pending = pending,
                                    !.plan = pending,
                                    !.failed = 0,
                                    !.result = IF pending = << >> THEN "NoPending" ELSE "",
                                    !.runs = @ + 1]
    /\ UNCHANGED <<migrations, schema>>

\* await this.db.run('BEGIN TRANSACTION')
Begin ==
    /\ Runner.pc = "begin"
    /\ runner' = [runner EXCEPT !.pc = "up",
                                !.snapshot = [migrations |-> migrations, schema |-> schema]]
    /\ UNCHANGED <<migrations, schema>>

\* await migration.up(this.db) returns
Up ==
    /\ Runner.pc = "up"
    /\ schema' = schema (+) SetToBag({Head(runner.pending)})
    /\ runner' = [runner EXCEPT !.pc = "insert"]
    /\ UNCHANGED migrations

\* await migration.up(this.db) throws, before or after its changes
UpFails(changed) ==
    /\ Runner.pc = "up"
    /\ schema' = IF changed THEN schema (+) SetToBag({Head(runner.pending)}) ELSE schema
    /\ runner' = [runner EXCEPT !.pc = "rollback", !.failed = Head(runner.pending)]
    /\ UNCHANGED migrations

\* INSERT INTO migrations (id, name); id is the PRIMARY KEY
Insert ==
    /\ Runner.pc = "insert"
    /\ IF Head(runner.pending) \in Range(migrations)
           THEN /\ runner' = [runner EXCEPT !.pc = "rollback", !.failed = Head(runner.pending)]
                /\ UNCHANGED migrations
           ELSE /\ migrations' = Append(migrations, Head(runner.pending))
                /\ runner' = [runner EXCEPT !.pc = "commit"]
    /\ UNCHANGED schema

\* COMMIT, and the loop's next round
Commit ==
    /\ Runner.pc = "commit"
    /\ runner' = [runner EXCEPT !.pc = IF Tail(runner.pending) = << >> THEN "idle" ELSE "begin",
                                !.pending = Tail(runner.pending),
                                !.result = IF Tail(runner.pending) = << >> THEN "OK" ELSE "",
                                !.snapshot = << >>]
    /\ UNCHANGED <<migrations, schema>>

\* catch: ROLLBACK, then throw error out of migrate()
Catch ==
    /\ Runner.pc = "rollback"
    /\ \E db \in {Rollback([migrations |-> migrations, schema |-> schema], runner.snapshot)} :
           /\ migrations' = db.migrations
           /\ schema' = db.schema
    /\ runner' = [runner EXCEPT !.pc = "idle", !.pending = << >>, !.result = "Error", !.snapshot = << >>]

DoMigrate == Migrate /\ UNCHANGED nonMigrationVars

DoMigrationBegin == Begin /\ UNCHANGED nonMigrationVars

DoMigrationUp == Up /\ UNCHANGED nonMigrationVars

DoMigrationUpFails == (\E changed \in BOOLEAN : UpFails(changed)) /\ UNCHANGED nonMigrationVars

DoMigrationInsert == Insert /\ UNCHANGED nonMigrationVars

DoMigrationCommit == Commit /\ UNCHANGED nonMigrationVars

DoMigrationCatch == Catch /\ UNCHANGED nonMigrationVars

NextMigrate == DoMigrate \/ DoMigrationBegin \/ DoMigrationUp \/ DoMigrationUpFails \/ DoMigrationInsert \/ DoMigrationCommit \/ DoMigrationCatch

SpecMigrate == Init /\ [][NextMigrate]_vars

----------------------------------------------------------------------------
(* SpecClient: browser sessions of one user (NotificationContext) against  *)
(* the relay.  A session is [ws, readyState, code, reconnectAttempts,      *)
(* reconnectTimeout]: ws is its socket (0 for null), code the code of the  *)
(* socket's close event, reconnectTimeout whether the timer is set.  A new *)
(* socket takes the next free connection number.                           *)

SessionIds == {1, 2}

\* user.id of the signed-in user, whose token the sessions hold
SessionUser == 1

SocketIds == 1..MaxSockets

\* wss.on('connection') for a URL with a userId: the connections and the registry
ConnectEffect(cns, cl, ch, userId, token) ==
    [conns |-> Accept(CloseExisting(cns, Get(cl, userId)), ch,
                      [state |-> "open", userId |-> userId, isAlive |-> TRUE,
                       pingInterval |-> TRUE, onClose |-> TRUE,
                       token |-> token, events |-> {}]),
     clients |-> Set(cl, userId, ch)]

\* The code of the close event the browser gets for a connection the server has left.
CloseCode(c) ==
    IF c.state = "closing"
        THEN IF c.userId = 0 THEN InvalidUrl ELSE NormalClosure
        ELSE 1006

\* if (event.code === 1000 || event.code === 4000) return
NoReconnect(code) == code = NormalClosure \/ code = InvalidUrl

\* The sessions with session s set to r.
SetSession(ss, s, r) == [i \in DOMAIN ss \cup {s} |-> IF i = s THEN r ELSE ss[i]]

\* setupWebSocket(): close the open socket, clear the timer, open a new one
setupWebSocket(s, old) ==
    \E ch \in {Cardinality(DOMAIN conns) + 1} :
        /\ ch \in SocketIds
        /\ \E e \in {ConnectEffect(IF old.ws # 0 /\ old.readyState = "open"
                                      THEN [conns EXCEPT ![old.ws].state = "hungup"]
                                      ELSE conns,
                                  clients, ch, SessionUser, SessionUser)} :
               /\ conns' = e.conns
               /\ clients' = e.clients
        /\ sessions' = SetSession(sessions, s, [ws |-> ch, readyState |-> "open", code |-> 0, reconnectAttempts |-> 0, reconnectTimeout |-> FALSE])
        /\ UNCHANGED <<appVars, migrationVars>>

\* useEffect: the provider mounts with a signed-in user
Mount(s) ==
    /\ s \notin DOMAIN sessions
    /\ setupWebSocket(s, [ws |-> 0, readyState |-> "closed"])

\* ws.current.onclose: the close event of the session's socket
OnClose(s) ==
    /\ s \in DOMAIN sessions
    /\ sessions[s].readyState = "open"
    /\ conns[sessions[s].ws].state # "open"
    /\ \E code \in {CloseCode(conns[sessions[s].ws])} :
           sessions' = [sessions EXCEPT
               ![s].readyState = "closed",
               ![s].code = code,
               ![s].reconnectAttempts =
                   IF ~NoReconnect(code) /\ @ < maxReconnectAttempts THEN @ + 1 ELSE @,
               ![s].reconnectTimeout =
                   IF ~NoReconnect(code) /\ sessions[s].reconnectAttempts < maxReconnectAttempts
                       THEN TRUE ELSE @]
    /\ UNCHANGED <<appVars, migrationVars, relayVars>>

\* reconnectTimeout fires: setupWebSocket()
ReconnectTimeout(s) ==
    /\ s \in DOMAIN sessions
    /\ sessions[s].reconnectTimeout
    /\ setupWebSocket(s, sessions[s])

\* connectionCheckInterval fires and finds the socket CLOSED or CLOSING
ConnectionCheck(s) ==
    /\ s \in DOMAIN sessions
    /\ sessions[s].ws # 0
    /\ sessions[s].readyState = "closed"
    /\ setupWebSocket(s, sessions[s])

\* The server's 'close' event; the closing handshake that the server began ends once the browser has answered it.
SocketCloseEvent(ch) ==
    /\ CloseEvent(ch)
    /\ conns[ch].state = "closing" =>
           \A s \in DOMAIN sessions :
               sessions[s].ws = ch => sessions[s].readyState = "closed"

DoMount == \E s \in SessionIds : Mount(s)

DoOnClose == \E s \in SessionIds : OnClose(s)

DoReconnectTimeout == \E s \in SessionIds : ReconnectTimeout(s)

DoConnectionCheck == \E s \in SessionIds : ConnectionCheck(s)

DoSocketTick == \E ch \in SocketIds : Tick(ch)

DoSocketPong == \E ch \in SocketIds : Pong(ch)

DoSocketHangUp == \E ch \in SocketIds : HangUp(ch)

DoSocketCloseEvent == \E ch \in SocketIds : SocketCloseEvent(ch)

NextClient ==
    \/ DoMount \/ DoOnClose \/ DoReconnectTimeout \/ DoConnectionCheck
    \/ DoSocketTick \/ DoSocketPong \/ DoSocketHangUp \/ DoSocketCloseEvent

SpecClient == Init /\ [][NextClient]_vars

----------------------------------------------------------------------------
(* The swap lifecycle, one request at a time (Spec).                       *)

Requester(id) == swap_requests[id].requesterId

Provider(id) == SkillOwnerId(swap_requests, skills, id)

Stored == DOMAIN swap_requests

\* C1: the status of a stored swap request changes only along the edges
\* pending->accepted, pending->rejected, pending->cancelled and
\* accepted->completed; every other requested change leaves it as it was.
C1_OnlyAlongEdges ==
    [][\A id \in Stored \cap DOMAIN swap_requests' :
          swap_requests'[id].status # swap_requests[id].status
              => <<swap_requests[id].status, swap_requests'[id].status>>
                     \in {<<"pending", "accepted">>,
                          <<"pending", "rejected">>,
                          <<"pending", "cancelled">>,
                          <<"accepted", "completed">>}]_vars

\* C2: once the status of a swap request is rejected, cancelled or
\* completed, no later request changes it.
C2_TerminalIsFinal ==
    [][\A id \in Stored :
          swap_requests[id].status \in {"rejected", "cancelled", "completed"}
              => /\ id \in DOMAIN swap_requests'
                 /\ swap_requests'[id].status = swap_requests[id].status]_vars

\* C3: a swap request becomes completed only from accepted; completing a
\* request that is still pending is refused.
C3_CompletedOnlyFromAccepted ==
    [][\A id \in Stored \cap DOMAIN swap_requests' :
          (/\ swap_requests'[id].status = "completed"
           /\ swap_requests[id].status # "completed")
              => swap_requests[id].status = "accepted"]_vars

\* C4: a Transition to accepted or rejected by anyone but the provider,
\* the requester included, is answered NotAuthorized and changes nothing;
\* it succeeds only for the owner of the wanted skill.
C4_OnlyProviderAcceptsOrRejects ==
    \A user \in Users, id \in Stored, status \in {"accepted", "rejected"} :
        LET e == TransitionEffect(swap_requests, skills, user, id, status)
        IN  /\ (user # Provider(id) \/ user = Requester(id))
                   => e.result = "NotAuthorized" /\ e.db = swap_requests
            /\ e.db # swap_requests => user = Provider(id)
            /\ e.result = "OK" => user = Provider(id)

\* A refused accept or reject has been answered while a request is stored.
C4_Witness ==
    /\ last.op = "transition"
    /\ last.status \in {"accepted", "rejected"}
    /\ last.result = "NotAuthorized"
    /\ \E id \in Stored : swap_requests[id].status = "pending"
                          /\ Requester(id) # Provider(id)

\* C5: a Transition to cancelled by a user who is not the requester changes
\* nothing; it is answered WrongAction when that user is the provider and
\* NotAuthorized otherwise.  Only the requester's cancel succeeds.
C5_OnlyRequesterCancels ==
    \A user \in Users, id \in Stored :
        LET e == TransitionEffect(swap_requests, skills, user, id,
                                  "cancelled")
        IN  /\ user # Requester(id)
                   => /\ e.db = swap_requests
                      /\ e.result = IF user = Provider(id)
                                        THEN "WrongAction"
                                        ELSE "NotAuthorized"
            /\ e.db # swap_requests => user = Requester(id)
            /\ e.result = "OK" => user = Requester(id)

\* The provider's cancel has been answered WrongAction.
C5_Witness ==
    /\ last.op = "transition"
    /\ last.status = "cancelled"
    /\ last.result = "WrongAction"
    /\ \E id \in Stored : swap_requests[id].status = "pending"
                          /\ Requester(id) # Provider(id)

\* C6: a Transition to completed by a user who is neither the requester nor
\* the provider is answered NotAuthorized and leaves the status and the
\* completion timestamp alone; on an accepted request the requester and the
\* provider are both answered OK, and the request is completed and stamped.
C6_OnlyParticipantsComplete ==
    \A user \in Users, id \in Stored :
        LET e == TransitionEffect(swap_requests, skills, user, id,
                                  "completed")
        IN  /\ user \notin {Requester(id), Provider(id)}
                   => e.result = "NotAuthorized" /\ e.db = swap_requests
            /\ (user \in {Requester(id), Provider(id)}
                    /\ swap_requests[id].status = "accepted")
                   => /\ e.result = "OK"
                      /\ e.db[id].status = "completed"
                      /\ e.db[id].completedAt

\* A third user's completion of an accepted request has been refused.
C6_Witness ==
    /\ last.op = "transition"
    /\ last.status = "completed"
    /\ last.result = "NotAuthorized"
    /\ \E id \in Stored : /\ swap_requests[id].status = "accepted"
                          /\ ~swap_requests[id].completedAt

\* C7: no stored swap request has its requester equal to its provider (the
\* wanted skill always belongs to a user other than the requester).
C7_RequesterIsNotProvider ==
    \A id \in Stored : Requester(id) # Provider(id)

\* C8: a Create by a requester who already has a pending request for the
\* wanted skill inserts nothing and, when the skills are valid, is answered
\* DuplicatePendingRequest; no two stored pending requests share their
\* requester and wanted skill.
C8_OnePendingPerPair ==
    /\ \A a \in Stored, b \in Stored :
           (/\ a # b
            /\ swap_requests[a].status = "pending"
            /\ swap_requests[b].status = "pending"
            /\ swap_requests[a].requesterId = swap_requests[b].requesterId)
               => swap_requests[a].skillRequestedId
                      # swap_requests[b].skillRequestedId
    /\ \A user \in Users, providerId \in Users,
          offeredSkillId \in SkillIds, wantedSkillId \in SkillIds :
           (\E id \in Stored : /\ swap_requests[id].status = "pending"
                               /\ Requester(id) = user
                               /\ swap_requests[id].skillRequestedId
                                      = wantedSkillId)
               => LET e == CreateEffect(swap_requests, skills, lastID + 1,
                               user, providerId, offeredSkillId,
                               wantedSkillId)
                  IN  /\ e.db = swap_requests
                      /\ e.result \in {"DuplicatePendingRequest",
                                       "InvalidSkillOwnership"}
                      /\ (OfferedSkillOf(skills, offeredSkillId, user)
                            /\ OfferedSkillOf(skills, wantedSkillId,
                                              providerId))
                             => e.result = "DuplicatePendingRequest"

\* A duplicate Create has been refused while another pending request of a
\* different pair is stored next to the first.
C8_Witness ==
    /\ last.op = "create"
    /\ last.result = "DuplicatePendingRequest"
    /\ \E a \in Stored, b \in Stored :
           /\ a # b
           /\ swap_requests[a].status = "pending"
           /\ swap_requests[b].status = "pending"
           /\ swap_requests[a].requesterId = swap_requests[b].requesterId

\* C9: a Delete removes the request only when it is pending and the caller
\* is its requester or provider; any other caller is answered NotAuthorized,
\* a participant deleting a request that is no longer pending is answered
\* InvalidStateTransition, and in both cases the request stays stored.
C9_DeleteOnlyPendingByParticipant ==
    \A user \in Users, id \in Stored :
        LET e == DeleteEffect(swap_requests, skills, user, id)
            participant == user \in {Requester(id), Provider(id)}
        IN  /\ ~participant
                   => e.result = "NotAuthorized" /\ e.db = swap_requests
            /\ (participant /\ swap_requests[id].status # "pending")
                   => /\ e.result = "InvalidStateTransition"
                      /\ e.db = swap_requests
            /\ e.db # swap_requests
                   => /\ participant
                      /\ swap_requests[id].status = "pending"
                      /\ e.result = "OK"
                      /\ e.db = DeleteSwap(swap_requests, id)

\* The Delete of an accepted request has been refused and the request is
\* still there.
C9_Witness ==
    /\ last.op = "delete"
    /\ last.result = "InvalidStateTransition"
    /\ \E id \in Stored : swap_requests[id].status = "accepted"

----------------------------------------------------------------------------
(* Two requests in flight (SpecConc).                                      *)

\* C10: of two Transition requests for the same swap request that are in
\* flight at the same time, at most one is answered OK.
C10_AtMostOneSucceeds ==
    \A i \in Slots, j \in Slots :
        (/\ i # j
         /\ reqs[i].pc = "done" /\ reqs[j].pc = "done"
         /\ reqs[i].overlapped /\ reqs[j].overlapped
         /\ reqs[i].id = reqs[j].id)
            => ~(reqs[i].result = "OK" /\ reqs[j].result = "OK")

\* C11: the writes of one Transition are one atomic unit: no request that
\* reads a swap request, also while another handler's transaction is open
\* on the shared connection, finds status completed with the completion
\* timestamp unset.
C11_NoPartialWriteObserved ==
    [][\A i \in Slots :
          (/\ reqs[i].pc = "select"
           /\ reqs'[i].pc # "select"
           /\ reqs[i].id \in DOMAIN swap_requests)
              => ~(/\ swap_requests[reqs[i].id].status = "completed"
                   /\ ~swap_requests[reqs[i].id].completedAt)]_vars

----------------------------------------------------------------------------
(* Create, Transition and Delete in flight together (SpecRace).            *)

\* C26: a Delete request that is answered OK removed a swap request whose status was pending when the DELETE statement ran, also when a Transition request is in flight with it.
C26_DeleteOnlyPending ==
    \A i \in Slots :
        (reqs[i].op = "delete" /\ reqs[i].pc = "done" /\ reqs[i].result = "OK")
            => reqs[i].status = "pending"

\* C27: no two stored pending swap requests share their requester and wanted skill, and of two Create requests in flight together for the same requester and wanted skill at most one is answered Created.
C27_OnePendingUnderDoubleSubmit ==
    /\ \A a \in Stored, b \in Stored :
           (/\ a # b
            /\ swap_requests[a].status = "pending"
            /\ swap_requests[b].status = "pending"
            /\ swap_requests[a].requesterId = swap_requests[b].requesterId)
               => swap_requests[a].skillRequestedId # swap_requests[b].skillRequestedId
    /\ \A i \in Slots, j \in Slots :
           (/\ i # j
            /\ reqs[i].op = "create" /\ reqs[j].op = "create"
            /\ reqs[i].pc = "done" /\ reqs[j].pc = "done"
            /\ reqs[i].overlapped /\ reqs[j].overlapped
            /\ reqs[i].user = reqs[j].user
            /\ reqs[i].wantedSkillId = reqs[j].wantedSkillId)
               => ~(reqs[i].result = "Created" /\ reqs[j].result = "Created")

----------------------------------------------------------------------------
(* Ratings (SpecRate).                                                     *)

\* C12: a rating request writes only when the addressed swap request is
\* stored with status completed; for a missing one and for one that is
\* pending, accepted, rejected or cancelled it fails and leaves the ratings
\* and every user's average as they were.
C12_RateOnlyCompleted ==
    \A user \in Users, swapId \in SwapIds, rating \in RatingInputs :
        LET e == SubmitRatingEffect(swap_requests, skills, ratings, users,
                                    user, swapId, rating)
            completed == /\ swapId \in Stored
                         /\ swap_requests[swapId].status = "completed"
        IN  /\ ~completed => /\ e.result \in {"NotFound", "ValidationError"}
                             /\ e.ratings = ratings
                             /\ e.users = users
            /\ e.ratings # ratings => completed

C12_Witness ==
    /\ last.op \in {"rate", "rerate"}
    /\ last.status \in {"pending", "accepted", "rejected", "cancelled"}
    /\ last.result = "NotFound"
    /\ ratings = EmptyBag

\* C13: a rating request on a completed swap request by a user who is
\* neither its requester nor its provider fails with NotAuthorized; no
\* rating row is written, the rating fields of the swap request and every
\* user's average stay as they were.
C13_RateOnlyParticipants ==
    \A user \in Users, swapId \in SwapIds, rating \in RatingInputs :
        (/\ swapId \in Stored
         /\ swap_requests[swapId].status = "completed"
         /\ ValidRating(rating)
         /\ user # Requester(swapId)
         /\ user # Provider(swapId))
            => LET e == SubmitRatingEffect(swap_requests, skills, ratings,
                                           users, user, swapId, rating)
               IN  /\ e.result = "NotAuthorized"
                   /\ e.ratings = ratings
                   /\ e.db = swap_requests
                   /\ e.users = users

C13_Witness ==
    /\ last.op \in {"rate", "rerate"}
    /\ last.status = "completed"
    /\ last.result = "NotAuthorized"

----------------------------------------------------------------------------
(* Skills (SpecSkills).                                                    *)

\* C17: an update and a delete of a stored skill by a user who does not own
\* it fail with NotFound, as they do for an id that is not stored, and
\* leave the skills table, with that skill's name, direction, description
\* and proficiency, as it was.
C17_NonOwnerLeavesSkill ==
    \A user \in Users, skillId \in SkillIds :
        (skillId \notin DOMAIN skills \/ skills[skillId].userId # user)
            => /\ DeleteSkillEffect(skills, user, skillId)
                      = [result |-> "NotFound", skills |-> skills]
               /\ \A name \in SkillNames, type \in SkillTypes,
                     details \in SkillDetails :
                      ValidSkill(name, type, details.proficiency_level)
                          => UpdateSkillEffect(skills, user, skillId, name,
                                 type, details.proficiency_level,
                                 details.description)
                                 = [result |-> "NotFound", skills |-> skills]

C17_Witness ==
    /\ last.op \in {"updateSkill", "deleteSkill"}
    /\ last.status = "stored"
    /\ last.result = "NotFound"

\* C18: no user holds two stored skills with the same name and direction.
C18_NoDuplicateSkill ==
    \A i, j \in DOMAIN skills :
        (/\ skills[i].userId = skills[j].userId
         /\ skills[i].name = skills[j].name
         /\ skills[i].isOffering = skills[j].isOffering
         /\ skills[i].isSeeking = skills[j].isSeeking) => i = j

----------------------------------------------------------------------------
(* The relay (SpecRelay, SpecRelayFair).                                   *)

Registered(ch) ==
    /\ ch \in DOMAIN conns
    /\ Get(clients, conns[ch].userId) = ch

\* C19: a user id has at most one channel: every open connection that
\* announced it is the one the registry maps it to; and when a connection
\* announces a user id that has an entry, the entry becomes the new
\* connection and the previous one is no longer open at the server.
C19_OneChannelPerUser ==
    [][/\ \A ch \in DOMAIN conns' :
              conns'[ch].state = "open"
                  => Get(clients', conns'[ch].userId) = ch
       /\ \A ch \in DOMAIN conns' \ DOMAIN conns, u \in DOMAIN clients :
              conns'[ch].userId = u
                  => /\ clients'[u] = ch
                     /\ conns'[clients[u]].state
                            \in {"closing", "terminated", "hungup",
                                 "closed"}]_vars

C19_Witness ==
    \E old, new \in DOMAIN conns :
        /\ old # new
        /\ conns[old].state = "closing"
        /\ conns[old].userId \in RelayUsers
        /\ conns[new].state = "open"
        /\ conns[new].userId = conns[old].userId
        /\ Get(clients, conns[old].userId) = new

\* C20: the heartbeat terminates a connection only when its last probe is
\* unanswered; a registered connection with an unanswered probe is answered
\* or leaves the registry; a terminated connection leaves the registry.
C20_HeartbeatReaps ==
    /\ [][\A ch \in DOMAIN conns :
              (conns'[ch].state = "terminated"
                   /\ conns[ch].state # "terminated")
                  => ~conns[ch].isAlive]_vars
    /\ \A ch \in ChannelIds :
           (Registered(ch) /\ ~conns[ch].isAlive)
               ~> (~Registered(ch) \/ conns[ch].isAlive)
    /\ \A ch \in ChannelIds :
           (Registered(ch) /\ conns[ch].state = "terminated")
               ~> ~Registered(ch)

C20_Witness ==
    \E ch \in DOMAIN conns :
        /\ Registered(ch)
        /\ conns[ch].state = "terminated"
        /\ ~conns[ch].isAlive

\* C21: the registry maps a user id only to a connection whose client
\* presented a valid identity token of that user, and a connection is sent
\* only the events of the user its token names.
C21_OnlyAuthenticatedChannels ==
    /\ \A u \in DOMAIN clients : conns[clients[u]].token = u
    /\ \A ch \in DOMAIN conns : conns[ch].events \subseteq {conns[ch].token}

\* handleClose of connection ch runs in this step: its 'close' event is delivered, or its 'error' event.
HandleCloseRuns(ch) ==
    /\ conns[ch].onClose
    /\ \/ conns[ch].state # "closed" /\ conns'[ch].state = "closed"
       \/ conns[ch].state = "open" /\ conns[ch].pingInterval /\ ~conns'[ch].pingInterval

----------------------------------------------------------------------------
(* The /api routes (SpecApi).                                              *)

MessagesRead == Route("GET", "/api/admin/messages", <<"authenticateToken", "requireAdmin">>)

\* A request that carries no token, or one that jwt.verify rejects.
WithoutValidToken(token) == token.kind # "valid"

\* C22: every route under /api other than registration and login answers a request without a valid token before its handler runs, and leaves the stored state as it was.
C22_TokenOnAllButAuth ==
    /\ Unauthenticated \subseteq {<<r.method, r.path>> : r \in AuthRoutes}
    /\ \A route \in Routes \ AuthRoutes, token \in Tokens, bodyOk \in BOOLEAN :
           WithoutValidToken(token) =>
               \E e \in {ApiEffect(route, token, bodyOk, adminMessages)} :
                   /\ ~e.handled
                   /\ e.result \in {"Unauthenticated", "InvalidToken"}
                   /\ e.adminMessages = adminMessages

\* C22 (amended): every route under /api other than registration, login and the health check answers a request without a valid token with 401 or 403 before its handler runs and leaves the stored state as it was; the health check answers any request and changes no stored state.
C22_TokenOnAllButAuthAndHealth ==
    /\ Unauthenticated \subseteq {<<r.method, r.path>> : r \in AuthRoutes \cup {HealthRoute}}
    /\ \A route \in Routes \ (AuthRoutes \cup {HealthRoute}), token \in Tokens, bodyOk \in BOOLEAN :
           WithoutValidToken(token) =>
               \E e \in {ApiEffect(route, token, bodyOk, adminMessages)} :
                   /\ ~e.handled
                   /\ e.result = (IF token.kind = "none" THEN "Unauthenticated" ELSE "InvalidToken")
                   /\ e.adminMessages = adminMessages
    /\ \A token \in Tokens, bodyOk \in BOOLEAN :
           \E e \in {ApiEffect(HealthRoute, token, bodyOk, adminMessages)} :
               e.handled /\ e.adminMessages = adminMessages

\* An expired token was turned away from POST /api/admin/messages while a message is stored.
C22_Witness ==
    /\ api # << >>
    /\ api.token.kind = "invalid"
    /\ api.method = "POST" /\ api.path = "/api/admin/messages"
    /\ api.result = "InvalidToken" /\ ~api.handled
    /\ Len(adminMessages) = 1

\* C23: an authenticated non-admin reads the platform messages, and no request of a non-admin creates or changes one.
C23_MessagesReadOnlyToNonAdmins ==
    /\ (api # << >> /\ api.method = "GET" /\ api.path = MessagesRead.path
            /\ api.token.kind = "valid" /\ ~api.token.is_admin)
           => api.result = "OK"
    /\ \A i \in DOMAIN adminMessages : adminMessages[i] \in Admins
    /\ \A route \in Routes, user \in ApiUsers \ Admins, bodyOk \in BOOLEAN :
           ApiEffect(route, generateToken(user), bodyOk, adminMessages).adminMessages = adminMessages

----------------------------------------------------------------------------
(* The migration runner (SpecMigrate).                                     *)

\* migrate() has returned without an error.
Migrated == Runner.pc = "idle" /\ Runner.result \in {"OK", "NoPending"}

C28_FailedUpRolledBack ==
    (Runner.pc = "idle" /\ Runner.result = "Error") =>
        /\ Runner.failed \in Range(Runner.plan)
        /\ Runner.pending = << >>
        /\ \A i, k \in DOMAIN Runner.plan :
               Runner.plan[k] = Runner.failed =>
                   IF i < k
                       THEN /\ Runner.plan[i] \in Range(migrations)
                            /\ CopiesIn(Runner.plan[i], schema) = 1
                       ELSE /\ Runner.plan[i] \notin Range(migrations)
                            /\ CopiesIn(Runner.plan[i], schema) = 0

\* The second migration of a run failed after the first one was committed.
C28_Witness ==
    /\ Runner.pc = "idle" /\ Runner.result = "Error"
    /\ Len(Runner.plan) >= 2
    /\ Runner.failed = Runner.plan[2]
    /\ Runner.plan[1] \in Range(migrations)

----------------------------------------------------------------------------
(* The browser sessions (SpecClient).                                      *)

\* C29: a session whose socket has closed with code 1000 or 4000 opens no new socket: it keeps the closed socket, and no timer of it is set.
C29_NoReconnectAfterNormalClose ==
    [][\A s \in DOMAIN sessions :
          (/\ sessions[s].readyState = "closed"
           /\ sessions[s].code \in {NormalClosure, InvalidUrl})
              => sessions'[s] = sessions[s]]_vars

----------------------------------------------------------------------------
(* The listing (SpecList).                                                 *)

\* C30: for every caller, status filter and type filter the listing returns only swap requests that the caller created or whose wanted skill the caller owns; with type sent only ones the caller created, with type received only ones whose wanted skill the caller owns; and the listing an answered request returned is of that kind.
C30_ListOnlyOwnRequests ==
    /\ \A user \in Users, status \in StatusFilters, type \in TypeFilters :
           \A id \in ListSwaps(swap_requests, skills, user, status, type) :
               /\ Requester(id) = user \/ Provider(id) = user
               /\ type = "sent" => Requester(id) = user
               /\ type = "received" => Provider(id) = user
               /\ status # "" => swap_requests[id].status = status
    /\ last.op = "list" =>
           \A id \in last.rows :
               /\ Requester(id) = last.user \/ Provider(id) = last.user
               /\ last.type = "sent" => Requester(id) = last.user
               /\ last.type = "received" => Provider(id) = last.user

\* A user who takes no part in a stored swap request has listed with no filter and got nothing, while a participant's listing is not empty.
C30_Witness ==
    /\ last.op = "list" /\ last.type = "all" /\ last.status = ""
    /\ last.rows = {}
    /\ \E id \in Stored : Requester(id) # last.user /\ Provider(id) # last.user
    /\ \E user \in Users : ListSwaps(swap_requests, skills, user, "", "all") # {}

====
